---- MODULE Spec2Model ----
(***************************************************************************)
(* SystemMetricsCollector (src/utils/collector.py): the background loop    *)
(* thread, the reader operations metrics() / processes(), mark_activity()  *)
(* and stop(), interleaved statement by statement.                         *)
(*                                                                         *)
(* Time is counted in units of 0.05 s (the floor of the loop's wait).      *)
(* Sampled values are represented by the number of the collection pass     *)
(* that sampled them; 0 stands for the value present before any pass       *)
(* ({} for a snapshot section, [] for the process list, the constructor's  *)
(* sample for disk and docker).                                            *)
(***************************************************************************)
EXTENDS Integers, FiniteSets, Sequences, TLC

\* ------------------------------------------------------------------ bounds

\* The clock runs from 0 (construction) to MaxTime.
MaxTime == 4
\* At most MaxPass collection passes are started.
MaxPass == 2

\* ------------------------------------------------------- program constants

\* max(target_interval - elapsed, 0.05): the floor, one time unit.
Floor == 1

\* ----------------------------------------------------------------- threads

Readers == {"r1", "r2"}
Stoppers == {"s1", "s2"}
ReaderOps == {"metrics", "processes", "dashboard"}

\* The data-source calls of one pass, in call order.
Sources == {"disk", "docker", "cpu", "memory", "uptime", "network", "processes"}

\* Resolved configurations (every value positive), in time units.
Configs ==
    { [interval |-> 1, idle_interval |-> 3, idle_timeout |-> 1,
       disk_interval |-> 2, docker_interval |-> 3],
      [interval |-> 2, idle_interval |-> 4, idle_timeout |-> 2,
       disk_interval |-> 2, docker_interval |-> 2] }

Max(a, b) == IF a >= b THEN a ELSE b

VARIABLES
    cfg,             \* interval, disk_interval, docker_interval, idle_interval, idle_timeout
    clock,           \* time.time()
    lockOwner,       \* _lock: "none", "loop" or a reader
    stop_ev,         \* _stop
    ready_ev,        \* _ready
    wake_ev,         \* _wake
    metrics,         \* _metrics
    processes,       \* _processes
    cached_disk,     \* _cached_disk
    cached_docker,   \* _cached_docker
    last_disk_at,    \* _last_disk_at
    last_docker_at,  \* _last_docker_at
    last_activity,   \* _last_activity
    loopPc,          \* position of the loop thread in _run
    loc,             \* locals of _run / _collect_once
    pass,            \* number of collection passes started
    produced,        \* history: the (snapshot, process list) pairs _collect_once returned
    sampledAt,       \* history: the clock when each pass made its data-source calls
    markedSincePass, \* history: mark_activity() was called since the last pass started
    rd,              \* readers: position, operation and returned values
    markPc,          \* position of the mark_activity() caller
    st,              \* stop() callers: position, join timer
    cf,              \* __init__: the interval argument, the environment, the resolved settings
    hp,              \* the objects behind stored and returned values, and who refers to them
    dk,              \* get_docker_info: docker_cache, its clock, the last listing's report
    rq,              \* app.py: the request being served and how far it has got
    pr,              \* prime_cpu_percent: its flag and lock, and the constructors calling it
    cw,              \* cache.py: the cache behind cached(duration), its clock, the last call
    ak               \* app.py: the stored API keys of a user and the requests creating them

sharedVars == <<lockOwner, stop_ev, ready_ev, wake_ev, metrics, processes,
                cached_disk, cached_docker, last_disk_at, last_docker_at,
                last_activity>>
loopVars == <<loopPc, loc, pass, produced, sampledAt>>
\* What no operation of a running collector writes.
fixedVars == <<cfg, cf, hp, dk, rq, pr, cw, ak>>
vars == <<cfg, clock, sharedVars, loopVars, rd, markPc, markedSincePass, st, cf, hp, dk,
          rq, pr, cw, ak>>

\* ---------------------------------------------------------------- values

\* self._metrics = {} : no section present; m.get(section, {}) yields 0.
EmptyMetrics ==
    [timestamp |-> 0, cpu |-> 0, memory |-> 0, uptime |-> 0, network |-> 0,
     disk |-> 0, docker |-> 0]

\* self._processes = []
EmptyProcesses == 0

\* time.time() == 0.0 lies further in the past than any interval.
EpochZero == 0 - (MaxTime + 10)

InitLocals ==
    [iteration_start |-> 0, now |-> 0, is_active |-> FALSE,
     new_metrics |-> EmptyMetrics, new_processes |-> EmptyProcesses,
     run_active |-> FALSE, sleep_duration |-> 0, deadline |-> 0,
     woke_early |-> FALSE]

InitReader == [pc |-> "idle", op |-> "none", call |-> "none", m |-> EmptyMetrics,
               p |-> EmptyProcesses, gotM |-> FALSE, gotP |-> FALSE]

InitStopper == [pc |-> "idle", expired |-> FALSE]

NoConstruction == [phase |-> "none"]
NoHeap == [phase |-> "none"]
NoDocker == [phase |-> "none"]
NoRequest == [phase |-> "none"]
NoPriming == [phase |-> "none"]
NoCache == [phase |-> "none"]
NoKeys == [phase |-> "none"]

\* __init__, lines 50-71: the state once the constructor has started the loop
\* thread.
CollectorStart ==
    /\ clock = 0
    /\ lockOwner = "none"
    /\ stop_ev = FALSE
    /\ ready_ev = FALSE
    /\ wake_ev = FALSE
    /\ metrics = EmptyMetrics
    /\ processes = EmptyProcesses
    /\ cached_disk = 0
    /\ cached_docker = 0
    /\ last_disk_at = EpochZero
    /\ last_docker_at = EpochZero
    /\ last_activity = 0
    /\ loopPc = "top"
    /\ loc = InitLocals
    /\ pass = 0
    /\ produced = {}
    /\ sampledAt = [k \in 0..MaxPass |-> 0]
    /\ markedSincePass = FALSE
    /\ rd = [r \in Readers |-> InitReader]
    /\ markPc = "idle"
    /\ st = [s \in Stoppers |-> InitStopper]

\* A running collector: its settings are resolved, its values are looked at as
\* values, and the docker adapter is looked at as one data source.
Init ==
    /\ cfg \in Configs
    /\ CollectorStart
    /\ cf = NoConstruction
    /\ hp = NoHeap
    /\ dk = NoDocker
    /\ rq = NoRequest
    /\ pr = NoPriming
    /\ cw = NoCache
    /\ ak = NoKeys

\* ------------------------------------------------------------- the clock

\* Where the loop thread spends time: starting up, before its first pass reads
\* the clock; inside the data-source calls; waiting for the lock at the publish;
\* and in the wait on the wake event, until the event is set or the timeout has
\* run out.  Elsewhere the loop runs straight-line code between two clock reads,
\* and so does mark_activity() between its two statements.  Once the thread has
\* ended, time goes on for the callers.
TimePasses ==
    /\ markPc = "idle"
    /\ \/ loopPc = "collect" /\ pass = 0
       \/ loopPc = "sampling"
       \/ loopPc = "publish" /\ lockOwner # "none"
       \/ loopPc = "wait" /\ ~wake_ev /\ clock < loc.deadline
       \/ loopPc \in {"exited", "crashed"}

Tick ==
    /\ clock < MaxTime
    /\ TimePasses
    /\ clock' = clock + 1
    /\ UNCHANGED <<fixedVars, sharedVars, loopVars, rd, markPc, markedSincePass, st>>

\* ---------------------------------------------------- _run / _collect_once

\* is_active = (now - self._last_activity) <= self.idle_timeout
IsActiveStrict(now) == (now - last_activity) < cfg.idle_timeout
IsActive(now) == (now - last_activity) <= cfg.idle_timeout

\* A disk gate that opens only after more than the interval.
DiskDueStrict(now) == now - last_disk_at > cfg.disk_interval

\* now - self._last_disk_at >= self.disk_interval
DiskDue(now) == now - last_disk_at >= cfg.disk_interval

\* now - self._last_docker_at >= self.docker_interval
DockerDue(now) == now - last_docker_at >= cfg.docker_interval

\* An idle branch that samples the network section.
IdleSnapshotSamplesNetwork(id, prev, disk, docker) ==
    [timestamp |-> id, cpu |-> prev.cpu, memory |-> prev.memory, uptime |-> id,
     network |-> id, disk |-> disk, docker |-> docker]

\* The dict built when not is_active.
IdleSnapshot(id, prev, disk, docker) ==
    [timestamp |-> id, cpu |-> prev.cpu, memory |-> prev.memory, uptime |-> id,
     network |-> prev.network, disk |-> disk, docker |-> docker]

\* An active branch that keeps the stored memory section.
ActiveSnapshotKeepsMemory(id, disk, docker) ==
    [timestamp |-> id, cpu |-> id, memory |-> metrics.memory, uptime |-> id,
     network |-> id, disk |-> disk, docker |-> docker]

\* The dict built when is_active.
ActiveSnapshot(id, disk, docker) ==
    [timestamp |-> id, cpu |-> id, memory |-> id, uptime |-> id,
     network |-> id, disk |-> disk, docker |-> docker]

\* while not self._stop.is_set(): iteration_start = time.time()
LoopTop ==
    /\ loopPc = "top"
    /\ IF stop_ev
          THEN /\ loopPc' = "exited"
               /\ UNCHANGED loc
          ELSE /\ loopPc' = "collect"
               /\ loc' = [loc EXCEPT !.iteration_start = clock]
    /\ UNCHANGED <<fixedVars, clock, sharedVars, pass, produced, sampledAt, rd, markPc, markedSincePass, st>>

\* _collect_once, lines 121-122: now and the regime of the pass.
CollectBegin ==
    /\ loopPc = "collect"
    /\ pass < MaxPass
    /\ pass' = pass + 1
    /\ loc' = [loc EXCEPT !.now = clock, !.is_active = IsActive(clock)]
    /\ loopPc' = "sampling"
    /\ markedSincePass' = FALSE
    /\ UNCHANGED <<fixedVars, clock, sharedVars, produced, sampledAt, rd, markPc, st>>

\* A data-source call that is made in this pass and whose exception nothing catches.
Raises(f) ==
    \/ f = "disk" /\ DiskDue(loc.now)
    \/ f = "uptime"
    \/ f \in {"cpu", "memory", "network", "processes"} /\ loc.is_active

\* _collect_once, lines 124-161: the data-source calls of the pass; f is the
\* call that fails ("none": no call fails).  get_docker_info catches its own
\* failure and returns an error entry, which is the sample of the pass; every
\* other call lets the exception through, and it ends the thread.
CollectSample(f) ==
    /\ loopPc = "sampling"
    /\ LET diskDone == DiskDue(loc.now) /\ f # "disk"
           dockerDone == DockerDue(loc.now) /\ ~(f = "disk" /\ DiskDue(loc.now))
           disk == IF diskDone THEN pass ELSE cached_disk
           docker == IF dockerDone THEN pass ELSE cached_docker
           new_m == IF loc.is_active
                       THEN ActiveSnapshot(pass, disk, docker)
                       ELSE IdleSnapshot(pass, metrics, disk, docker)
           new_p == IF loc.is_active THEN pass ELSE processes
       IN /\ cached_disk' = disk
          /\ last_disk_at' = IF diskDone THEN loc.now ELSE last_disk_at
          /\ cached_docker' = docker
          /\ last_docker_at' = IF dockerDone THEN loc.now ELSE last_docker_at
          /\ IF Raises(f)
                THEN /\ loopPc' = "crashed"
                     /\ loc' = InitLocals
                     /\ UNCHANGED <<produced, sampledAt>>
                ELSE /\ loopPc' = "publish"
                     /\ loc' = [loc EXCEPT !.now = 0, !.is_active = FALSE,
                                           !.new_metrics = new_m,
                                           !.new_processes = new_p]
                     /\ produced' = produced \cup {[m |-> new_m, p |-> new_p]}
                     /\ sampledAt' = [sampledAt EXCEPT ![pass] = clock]
    /\ UNCHANGED <<fixedVars, clock, lockOwner, stop_ev, ready_ev, wake_ev, metrics,
                   processes, last_activity, pass, rd, markPc, markedSincePass, st>>

\* A torn store: the stored dict is updated section by section and the memory section
\* is left as it was.
StoredMetricsTorn == [loc.new_metrics EXCEPT !.memory = metrics.memory]

\* The value assigned by self._metrics = metrics: the dict _collect_once returned.
StoredMetrics == loc.new_metrics

\* with self._lock: self._metrics = metrics
LoopPublishMetrics ==
    /\ loopPc = "publish"
    /\ lockOwner = "none"
    /\ lockOwner' = "loop"
    /\ metrics' = StoredMetrics
    /\ loopPc' = "publish2"
    /\ UNCHANGED <<fixedVars, clock, stop_ev, ready_ev, wake_ev, processes, cached_disk,
                   cached_docker, last_disk_at, last_docker_at, last_activity,
                   loc, pass, produced, sampledAt, rd, markPc, markedSincePass, st>>

\* A with block that does not give the lock back.
LockKeptAfterPublish == "loop"

\* The owner of the lock once the with block of lines 102-105 is left.
LockAfterPublish == "none"

\* self._processes = processes; self._ready.set(); the lock is released
LoopPublishProcesses ==
    /\ loopPc = "publish2"
    /\ processes' = loc.new_processes
    /\ ready_ev' = TRUE
    /\ lockOwner' = LockAfterPublish
    /\ loc' = [loc EXCEPT !.new_metrics = EmptyMetrics,
                          !.new_processes = EmptyProcesses]
    /\ loopPc' = "sleep"
    /\ UNCHANGED <<fixedVars, clock, stop_ev, wake_ev, metrics, cached_disk,
                   cached_docker, last_disk_at, last_docker_at, last_activity,
                   pass, produced, sampledAt, rd, markPc, markedSincePass, st>>

\* A timeout without the floor.
SleepDurationUnfloored(target, elapsed) == target - elapsed

\* sleep_duration = max(target_interval - elapsed, 0.05)
SleepDuration(target, elapsed) == Max(target - elapsed, Floor)

\* lines 107-113: the wait's timeout, and the wait is entered
LoopSleep ==
    /\ loopPc = "sleep"
    /\ LET elapsed == clock - loc.iteration_start
           is_active == IsActive(clock)
           target == IF is_active THEN cfg.interval ELSE cfg.idle_interval
           d == SleepDuration(target, elapsed)
       IN loc' = [loc EXCEPT !.iteration_start = 0, !.run_active = is_active,
                             !.sleep_duration = d, !.deadline = clock + d]
    /\ loopPc' = "wait"
    /\ UNCHANGED <<fixedVars, clock, sharedVars, pass, produced, sampledAt, rd, markPc, markedSincePass, st>>

\* woke_early = self._wake.wait(timeout=sleep_duration)
LoopWake ==
    /\ loopPc = "wait"
    /\ wake_ev \/ clock >= loc.deadline
    /\ loc' = [loc EXCEPT !.woke_early = wake_ev, !.run_active = FALSE,
                          !.sleep_duration = 0, !.deadline = 0]
    /\ loopPc' = "stopcheck"
    /\ UNCHANGED <<fixedVars, clock, sharedVars, pass, produced, sampledAt, rd, markPc, markedSincePass, st>>

\* if self._stop.is_set(): break
LoopStopCheck ==
    /\ loopPc = "stopcheck"
    /\ loopPc' = IF stop_ev THEN "exited"
                 ELSE IF loc.woke_early THEN "clear" ELSE "top"
    /\ loc' = [loc EXCEPT !.woke_early = FALSE]
    /\ UNCHANGED <<fixedVars, clock, sharedVars, pass, produced, sampledAt, rd, markPc, markedSincePass, st>>

\* if woke_early: self._wake.clear()
LoopClear ==
    /\ loopPc = "clear"
    /\ wake_ev' = FALSE
    /\ loopPc' = "top"
    /\ UNCHANGED <<fixedVars, clock, lockOwner, stop_ev, ready_ev, metrics, processes,
                   cached_disk, cached_docker, last_disk_at, last_docker_at,
                   last_activity, loc, pass, produced, sampledAt, rd, markPc, markedSincePass, st>>

Loop ==
    \/ LoopTop
    \/ CollectBegin
    \/ \E f \in Sources \cup {"none"} : CollectSample(f)
    \/ LoopPublishMetrics
    \/ LoopPublishProcesses
    \/ LoopSleep
    \/ LoopWake
    \/ LoopStopCheck
    \/ LoopClear

\* ------------------------------------------------- metrics() / processes()

\* copy.deepcopy(self._metrics)
DeepCopy(m) == m

\* [proc.copy() for proc in self._processes]
CopyList(p) == p

\* self._ready.wait() has returned and the lock can be taken
CanEnter(r) == ready_ev /\ lockOwner = "none"

\* A handler calls metrics() or processes(); dashboard() calls metrics() first.
ReaderCall(r, op) ==
    /\ rd[r].pc = "idle"
    /\ rd' = [rd EXCEPT ![r] = [@ EXCEPT !.pc = "wait", !.op = op,
                 !.call = IF op = "processes" THEN "processes" ELSE "metrics"]]
    /\ UNCHANGED <<fixedVars, clock, sharedVars, loopVars, markPc, markedSincePass, st>>

\* self._ready.wait(); with self._lock:
ReaderEnter(r) ==
    /\ rd[r].pc = "wait"
    /\ CanEnter(r)
    /\ lockOwner' = r
    /\ rd' = [rd EXCEPT ![r].pc = "copy"]
    /\ UNCHANGED <<fixedVars, clock, stop_ev, ready_ev, wake_ev, metrics, processes,
                   cached_disk, cached_docker, last_disk_at, last_docker_at,
                   last_activity, loopVars, markPc, markedSincePass, st>>

\* return copy.deepcopy(self._metrics) / return [proc.copy() ...]; the lock is
\* released.  dashboard() goes on to call processes().
ReaderCopy(r) ==
    /\ rd[r].pc = "copy"
    /\ lockOwner = r
    /\ lockOwner' = "none"
    /\ rd' = [rd EXCEPT ![r] =
         IF rd[r].call = "metrics"
            THEN [rd[r] EXCEPT
                    !.m = DeepCopy(metrics), !.gotM = TRUE,
                    !.call = IF rd[r].op = "dashboard" THEN "processes" ELSE "metrics",
                    !.pc = IF rd[r].op = "dashboard" THEN "wait" ELSE "done"]
            ELSE [rd[r] EXCEPT
                    !.p = CopyList(processes), !.gotP = TRUE, !.pc = "done"]]
    /\ UNCHANGED <<fixedVars, clock, stop_ev, ready_ev, wake_ev, metrics, processes,
                   cached_disk, cached_docker, last_disk_at, last_docker_at,
                   last_activity, loopVars, markPc, markedSincePass, st>>

\* The handler has used the values and ends.
ReaderReturn(r) ==
    /\ rd[r].pc = "done"
    /\ rd' = [rd EXCEPT ![r] = InitReader]
    /\ UNCHANGED <<fixedVars, clock, sharedVars, loopVars, markPc, markedSincePass, st>>

ReaderStep(r) ==
    \/ \E op \in ReaderOps : ReaderCall(r, op)
    \/ ReaderEnter(r)
    \/ ReaderCopy(r)
    \/ ReaderReturn(r)

Reader == \E r \in Readers : ReaderStep(r)

\* ---------------------------------------------------------- mark_activity()

\* self._last_activity = time.time()
MarkStamp ==
    /\ markPc = "idle"
    /\ last_activity' = clock
    /\ markPc' = "set"
    /\ markedSincePass' = TRUE
    /\ UNCHANGED <<fixedVars, clock, lockOwner, stop_ev, ready_ev, wake_ev, metrics,
                   processes, cached_disk, cached_docker, last_disk_at,
                   last_docker_at, loopVars, rd, st>>

\* A wake that also raises the ready event, which only the loop's publish sets.
MarkWakeSetsReady ==
    /\ markPc = "set"
    /\ wake_ev' = TRUE
    /\ ready_ev' = TRUE
    /\ markPc' = "idle"
    /\ UNCHANGED <<fixedVars, clock, lockOwner, stop_ev, metrics, processes,
                   cached_disk, cached_docker, last_disk_at, last_docker_at,
                   last_activity, loopVars, rd, markedSincePass, st>>

\* self._wake.set()
MarkWake ==
    /\ markPc = "set"
    /\ wake_ev' = TRUE
    /\ markPc' = "idle"
    /\ UNCHANGED <<fixedVars, clock, lockOwner, stop_ev, ready_ev, metrics, processes,
                   cached_disk, cached_docker, last_disk_at, last_docker_at,
                   last_activity, loopVars, rd, markedSincePass, st>>

MarkActivity == MarkStamp \/ MarkWake

\* -------------------------------------------------------------------- stop()

\* self._thread.is_alive()
ThreadAlive == loopPc \notin {"exited", "crashed"}

\* self._stop.set()
StopSetStop(s) ==
    /\ st[s].pc = "idle"
    /\ stop_ev' = TRUE
    /\ st' = [st EXCEPT ![s].pc = "setwake"]
    /\ UNCHANGED <<fixedVars, clock, lockOwner, ready_ev, wake_ev, metrics, processes,
                   cached_disk, cached_docker, last_disk_at, last_docker_at,
                   last_activity, loopVars, rd, markPc, markedSincePass>>

\* self._wake.set()
StopSetWake(s) ==
    /\ st[s].pc = "setwake"
    /\ wake_ev' = TRUE
    /\ st' = [st EXCEPT ![s].pc = "alive"]
    /\ UNCHANGED <<fixedVars, clock, lockOwner, stop_ev, ready_ev, metrics, processes,
                   cached_disk, cached_docker, last_disk_at, last_docker_at,
                   last_activity, loopVars, rd, markPc, markedSincePass>>

\* if self._thread.is_alive(): self._thread.join(timeout=1)
StopAliveCheck(s) ==
    /\ st[s].pc = "alive"
    /\ st' = [st EXCEPT ![s].pc = IF ThreadAlive THEN "join" ELSE "done"]
    /\ UNCHANGED <<fixedVars, clock, sharedVars, loopVars, rd, markPc, markedSincePass>>

\* The join's timeout of 1 s runs out.
JoinTimerExpires(s) ==
    /\ st[s].pc = "join"
    /\ ~st[s].expired
    /\ st' = [st EXCEPT ![s].expired = TRUE]
    /\ UNCHANGED <<fixedVars, clock, sharedVars, loopVars, rd, markPc, markedSincePass>>

\* join(timeout=1) returns: the thread has ended or the timeout ran out
JoinReturnsUntimed(s) == ~ThreadAlive
JoinReturns(s) == ~ThreadAlive \/ st[s].expired

StopJoin(s) ==
    /\ st[s].pc = "join"
    /\ JoinReturns(s)
    /\ st' = [st EXCEPT ![s].pc = "done"]
    /\ UNCHANGED <<fixedVars, clock, sharedVars, loopVars, rd, markPc, markedSincePass>>

StopStep(s) ==
    \/ StopSetStop(s)
    \/ StopSetWake(s)
    \/ StopAliveCheck(s)
    \/ JoinTimerExpires(s)
    \/ StopJoin(s)

Stop == \E s \in Stoppers : StopStep(s)

Next ==
    \/ Tick
    \/ Loop
    \/ Reader
    \/ MarkActivity
    \/ Stop

Spec == Init /\ [][Next]_vars

\* The collector with the callers a property is about: each of these allows a
\* subset of the behaviours of Spec.

\* The loop, the activity marks of inbound requests and one request handler
\* reading from the collector.
NextReaders == Tick \/ Loop \/ MarkActivity \/ ReaderStep("r1")
SpecReaders == Init /\ [][NextReaders]_vars

\* The loop and the activity marks of inbound requests.
NextActivity == Tick \/ Loop \/ MarkActivity
SpecActivity == Init /\ [][NextActivity]_vars

\* The loop, activity marks and two callers of stop().
NextStop == Tick \/ Loop \/ MarkActivity \/ Stop
SpecStop == Init /\ [][NextStop]_vars

\* The loop, activity marks, one caller of stop() and one request handler.
NextStopRead == Tick \/ Loop \/ MarkActivity \/ StopStep("s1") \/ ReaderStep("r1")
SpecStopRead == Init /\ [][NextStopRead]_vars

\* ================================================================ properties

\* The snapshot was assembled by an ACTIVE pass: its cpu, memory and network
\* sections carry the pass's own samples.
FreshlySampled(m) ==
    /\ m.cpu = m.timestamp
    /\ m.memory = m.timestamp
    /\ m.network = m.timestamp

C2_DashboardPairFromOneCycle ==
    \A r \in Readers :
        (rd[r].op = "dashboard" /\ rd[r].pc = "done")
            => [m |-> rd[r].m, p |-> rd[r].p] \in produced

\* ---------------------------------------------------------------------- C3
\* The startup barrier: a call returns only once the first publish has set the
\* ready event; from then on a waiting call needs nothing but the lock, and the
\* loop holds the lock only between its two assignments, never while it collects.
BarrierIsTheOnlyWait ==
    /\ \A r \in Readers : (rd[r].gotM \/ rd[r].gotP) => ready_ev
    /\ \A r \in Readers :
         (rd[r].pc = "wait" /\ ready_ev /\ lockOwner = "none") => ENABLED ReaderEnter(r)
    /\ lockOwner = "loop" => loopPc = "publish2"

\* No call returns the values the collector was constructed with: {} and [].
NeverInitialValue ==
    \A r \in Readers :
        /\ rd[r].gotM => rd[r].m # EmptyMetrics
        /\ rd[r].gotP => rd[r].p # EmptyProcesses

\* C3: metrics() and processes() never return before the first publish (never
\* the initial {} / []), and after the first publish a call waits for the lock
\* only, never for a collection pass.  (SpecReaders)
C3_StartupBarrierOnly == BarrierIsTheOnlyWait /\ NeverInitialValue

\* ---------------------------------------------------------------------- C4
\* C4: the first snapshot published comes from a full pass: its cpu, memory and
\* network sections and the process list are freshly sampled, never the empty
\* values of the unpublished initial state.  (SpecActivity)
C4_FirstSnapshotFullPass ==
    (ready_ev /\ metrics.timestamp = 1)
        => (FreshlySampled(metrics) /\ processes # EmptyProcesses)

\* ---------------------------------------------------------------------- C5
\* C5: a failing data-source call never ends the loop thread: every started
\* pass goes on to its publish.  (SpecActivity)
C5_LoopSurvivesSourceFailure == loopPc # "crashed"

\* ---------------------------------------------------------------------- C6
\* C6: a metrics() call made after stop() never blocks forever: when the loop
\* has exited on the stop signal, the ready event a waiting call needs is set.
\* (SpecStopRead)
C6_MetricsAfterStopReturns ==
    \A r \in Readers :
        (rd[r].pc = "wait" /\ rd[r].call = "metrics" /\ loopPc = "exited")
            => ready_ev

\* ---------------------------------------------------------------------- C7
\* A pass is in flight from the loop's decision to iterate to its publish.
InFlight == {"collect", "sampling", "publish", "publish2"}

\* stop() during the wait: the loop leaves the wait and exits, starting no pass.
WaitEndsInExit ==
    (stop_ev /\ loopPc \in {"wait", "stopcheck"})
        => loopPc' \in {"wait", "stopcheck", "exited"}

\* stop() during a pass: the pass goes on to its publish.
PassInFlightPublishes ==
    (stop_ev /\ loopPc \in InFlight) => loopPc' \in InFlight \cup {"sleep"}

\* After its publish the loop reaches the wait; seeing the stop signal at the
\* top of the loop it exits; and nothing is published after the exit.
NoPassAfterStop ==
    /\ (stop_ev /\ loopPc = "sleep") => loopPc' \in {"sleep", "wait"}
    /\ (stop_ev /\ loopPc \in {"top", "clear"}) => loopPc' \in {"top", "clear", "exited"}
    /\ loopPc = "exited" => (loopPc' = "exited" /\ UNCHANGED <<metrics, processes>>)

\* C7: stop() during the wait ends the wait and the loop exits without another
\* pass; stop() during a pass lets that pass finish and publish, and then the
\* loop exits; after the exit the published pair never changes.  (SpecStop)
C7_StopSemantics ==
    [][WaitEndsInExit /\ PassInFlightPublishes /\ NoPassAfterStop]_vars

\* The same, except that a pass in flight may also end in the thread's death.
C7_StopSemanticsUnlessCrash ==
    [][/\ WaitEndsInExit
       /\ (stop_ev /\ loopPc \in InFlight) => loopPc' \in InFlight \cup {"sleep", "crashed"}
       /\ NoPassAfterStop]_vars

\* ---------------------------------------------------------------------- C8
\* A step of a stop() call.
StopCallSteps == st' # st

\* stop() writes the two events and nothing else of the collector.
StopWritesEventsOnly ==
    StopCallSteps =>
        /\ UNCHANGED <<lockOwner, ready_ev, metrics, processes, cached_disk,
                       cached_docker, last_disk_at, last_docker_at,
                       last_activity, loopVars>>
        /\ stop_ev => stop_ev'
        /\ wake_ev => wake_ev'

\* A call past its first statement has the stop signal set, and nothing clears it.
StopSignalStays == \A s \in Stoppers : st[s].pc # "idle" => stop_ev

\* A call waiting in join returns once the join's timeout has run out, whatever
\* the loop is doing.
JoinIsBounded ==
    \A s \in Stoppers : (st[s].pc = "join" /\ st[s].expired) => JoinReturns(s)

\* C8 as stated: after stop() has returned, once or twice, sequentially or
\* concurrently, the collector is in one and the same state, with the stop and
\* the wake signals set.  (SpecStop)
C8_StopLeavesBothSignalsSet ==
    (\E s \in Stoppers : st[s].pc = "done") => (stop_ev /\ wake_ev)

\* C8 amended: a second or concurrent stop() changes nothing but the two events;
\* the stop signal stays set from the first call on (the wake signal is set
\* again by every call and may be cleared by the loop in between); and a call
\* returns as soon as the thread has ended or the join's timeout has run out,
\* also while a pass is in flight.  (SpecStop)
C8_StopIdempotentBounded ==
    /\ [](StopSignalStays /\ JoinIsBounded)
    /\ [][StopWritesEventsOnly /\ (stop_ev => stop_ev')]_vars

\* Both calls have returned, the first one on the timeout while a pass was
\* still collecting.
C8_Witness ==
    /\ st["s1"].pc = "done" /\ st["s1"].expired
    /\ st["s2"].pc = "done"
    /\ loopPc = "sampling"

\* ---------------------------------------------------------------------- C9
\* The regime of a pass is decided at its start from the activity stamp.
RegimeDecidedAtPassStart ==
    (loopPc = "collect" /\ loopPc' = "sampling") =>
        /\ loc'.now = clock
        /\ loc'.is_active <=> (clock - last_activity <= cfg.idle_timeout)

\* An ACTIVE pass samples cpu, memory, network and the process list; an IDLE
\* pass carries all four over from the previous publish.
RegimeDecidesSampling ==
    (loopPc = "sampling" /\ loopPc' = "publish") =>
        /\ loc.is_active =>
             /\ FreshlySampled(loc'.new_metrics)
             /\ loc'.new_processes = loc'.new_metrics.timestamp
        /\ ~loc.is_active =>
             /\ loc'.new_metrics.cpu = metrics.cpu
             /\ loc'.new_metrics.memory = metrics.memory
             /\ loc'.new_metrics.network = metrics.network
             /\ loc'.new_processes = processes
             /\ ~FreshlySampled(loc'.new_metrics)

\* C9: a pass is ACTIVE exactly when, at its start, the last activity is at
\* most idle_timeout old, and IDLE otherwise; ACTIVE samples everything, IDLE
\* reuses cpu, memory, network and the process list.  (SpecActivity)
C9_RegimeRule == [][RegimeDecidedAtPassStart /\ RegimeDecidesSampling]_vars

\* The second pass is ACTIVE, made so by a request exactly idle_timeout before
\* its start, after an IDLE first pass.
C9_Witness ==
    /\ loopPc = "publish" /\ pass = 2
    /\ FreshlySampled(loc.new_metrics)
    /\ last_activity > 0
    /\ \E x \in produced : x.m.timestamp = 1 /\ ~FreshlySampled(x.m)

\* --------------------------------------------------------------------- C10
\* The last published pass was IDLE.
LastPassIdle == pass >= 1 /\ metrics.timestamp = pass /\ ~FreshlySampled(metrics)

\* C10: after an IDLE pass, a mark_activity() call made and completed since that
\* pass began makes the next pass ACTIVE, however long the IDLE pass took.
\* (SpecActivity)
C10_MarkMakesNextPassActive ==
    [][(/\ loopPc = "collect" /\ loopPc' = "sampling"
        /\ LastPassIdle /\ markedSincePass /\ markPc = "idle")
          => loc'.is_active]_vars

\* --------------------------------------------------------------------- C11
\* uptime_seconds = time.time() - boot_time, read when the pass that sampled the
\* uptime section made its data-source calls (boot_time taken as 0).
UptimeSeconds(m) == sampledAt[m.uptime]

\* The store of a snapshot assembled in IDLE regime, after an earlier publish.
IdleStoreKeepsSections ==
    (loopPc = "publish" /\ loopPc' = "publish2" /\ ready_ev /\ ~FreshlySampled(metrics'))
        => /\ metrics'.cpu = metrics.cpu
           /\ metrics'.memory = metrics.memory
           /\ metrics'.network = metrics.network
           /\ loc.new_processes = processes
           /\ metrics'.timestamp > metrics.timestamp
           /\ metrics'.uptime = metrics'.timestamp
           /\ UptimeSeconds(metrics') >= UptimeSeconds(metrics)
           /\ sampledAt[metrics'.timestamp] > sampledAt[metrics.timestamp]
                 => UptimeSeconds(metrics') > UptimeSeconds(metrics)

\* The store of the process list that goes with it.
IdleStoreKeepsProcesses ==
    (loopPc = "publish2" /\ loopPc' = "sleep" /\ ready_ev /\ ~FreshlySampled(metrics))
        => processes' = processes

\* C11: a snapshot published by an IDLE pass has the cpu, memory and network
\* sections and the process list of the previously published snapshot, a new
\* timestamp, and an uptime sampled in this pass: uptime_seconds is greater than
\* before when the clock has advanced between the two passes.  (SpecActivity)
C11_IdlePassCarriesOver == [][IdleStoreKeepsSections /\ IdleStoreKeepsProcesses]_vars

\* The second pass, IDLE, has published after an ACTIVE first pass, and the
\* clock advanced between their samplings.
C11_Witness ==
    /\ loopPc = "sleep" /\ pass = 2
    /\ metrics.timestamp = 2 /\ metrics.cpu = 1 /\ metrics.network = 1
    /\ processes = 1
    /\ sampledAt[2] > sampledAt[1]

Age(k) == clock - sampledAt[k]

\* A reader obtains a snapshot.
Obtains(r) == ~rd[r].gotM /\ rd'[r].gotM

\* C13: when a reader obtains a snapshot, a disk section older than
\* disk_interval, or a docker section older than docker_interval, is explained
\* by a cycle in progress: the loop thread is alive and will refresh it.
\* (SpecReaders)
C13_DiskDockerStaleness ==
    [][\A r \in Readers :
          Obtains(r) =>
              /\ Age(rd'[r].m.disk) > cfg.disk_interval => ThreadAlive
              /\ Age(rd'[r].m.docker) > cfg.docker_interval => ThreadAlive]_vars

\* =============================================== __init__: resolved settings
\* Durations are counted in tenths of a second here; process_limit is a count.

EnvKeys == {"interval", "disk_interval", "docker_interval", "idle_interval",
            "idle_timeout", "process_limit"}

\* Values of an environment variable: not set, or one of these strings.
Unset == "unset"
EnvTokens == {Unset, "abc", "-2", "0", "0.5", "3"}

\* The constructor's interval argument: not given (None), or a number.
Args == {[given |-> FALSE, val |-> 0], [given |-> TRUE, val |-> 0],
         [given |-> TRUE, val |-> 0 - 30], [given |-> TRUE, val |-> 20]}

\* The defaults written in __init__.
DefaultInterval == 10
DefaultSlowInterval == 50
DefaultIdleInterval == 300
DefaultIdleTimeout == 50
DefaultProcessLimit == 10

\* float(s): the strings float() accepts, and their values.
FloatParses(tok) == tok \in {"-2", "0", "0.5", "3"}
FloatValue(tok) ==
    CASE tok = "-2" -> 0 - 20
      [] tok = "0" -> 0
      [] tok = "0.5" -> 5
      [] tok = "3" -> 30

\* int(s): the strings int() accepts, and their values.
IntParses(tok) == tok \in {"-2", "0", "3"}
IntValue(tok) ==
    CASE tok = "-2" -> 0 - 2
      [] tok = "0" -> 0
      [] tok = "3" -> 3

\* A _positive_float that lets zero through.
PositiveFloatOrZero(tok, default) ==
    IF tok = Unset THEN default
    ELSE IF ~FloatParses(tok) THEN default
    ELSE IF FloatValue(tok) >= 0 THEN FloatValue(tok) ELSE default

\* _positive_float: float(os.environ.get(env_key, default)); an unset variable
\* makes float() convert the default itself, and either branch of the
\* comparison then returns the default; ValueError returns the default.
PositiveFloat(tok, default) ==
    IF tok = Unset THEN default
    ELSE IF ~FloatParses(tok) THEN default
    ELSE IF FloatValue(tok) > 0 THEN FloatValue(tok) ELSE default

\* _positive_int
PositiveInt(tok, default) ==
    IF tok = Unset THEN default
    ELSE IF ~IntParses(tok) THEN default
    ELSE IF IntValue(tok) > 0 THEN IntValue(tok) ELSE default

\* interval or 1.0
IntervalOrDefault(arg) ==
    IF arg.given /\ arg.val # 0 THEN arg.val ELSE DefaultInterval

\* __init__, lines 43-48
Resolve(arg, env) ==
    LET base == PositiveFloat(env["interval"], IntervalOrDefault(arg))
    IN [interval |-> base,
        disk_interval |-> PositiveFloat(env["disk_interval"], Max(base, DefaultSlowInterval)),
        docker_interval |-> PositiveFloat(env["docker_interval"], Max(base, DefaultSlowInterval)),
        idle_interval |-> PositiveFloat(env["idle_interval"], DefaultIdleInterval),
        idle_timeout |-> PositiveFloat(env["idle_timeout"], DefaultIdleTimeout),
        process_limit |-> PositiveInt(env["process_limit"], DefaultProcessLimit)]

\* No attribute is set yet.
NoSettings ==
    [interval |-> 0, disk_interval |-> 0, docker_interval |-> 0,
     idle_interval |-> 0, idle_timeout |-> 0, process_limit |-> 0]

\* SystemMetricsCollector(interval) is about to be called in some environment.
InitConfig ==
    /\ cfg \in Configs
    /\ CollectorStart
    /\ hp = NoHeap
    /\ dk = NoDocker
    /\ rq = NoRequest
    /\ pr = NoPriming
    /\ cw = NoCache
    /\ ak = NoKeys
    /\ \E a \in Args, e \in [EnvKeys -> EnvTokens] :
          cf = [phase |-> "called", arg |-> a, env |-> e, conf |-> NoSettings]

\* Lines 43-48 run; the settings are the collector's from now on.
Construct ==
    /\ cf.phase = "called"
    /\ cf' = [cf EXCEPT !.phase = "built", !.conf = Resolve(cf.arg, cf.env)]
    /\ UNCHANGED <<cfg, clock, sharedVars, loopVars, rd, markPc, markedSincePass,
                   st, hp, dk, rq, pr, cw, ak>>

NextConfig == Construct
SpecConfig == InitConfig /\ [][NextConfig]_vars

\* --------------------------------------------------------------------- C15
\* What the environment value of a duration variable parses to, if anything.
ParsedPositive(tok, isInt) ==
    IF isInt THEN tok # Unset /\ IntParses(tok) /\ IntValue(tok) > 0
             ELSE tok # Unset /\ FloatParses(tok) /\ FloatValue(tok) > 0

\* The documented result for one variable.
Documented(tok, isInt, default) ==
    IF ParsedPositive(tok, isInt)
       THEN (IF isInt THEN IntValue(tok) ELSE FloatValue(tok))
       ELSE default

\* C15: whatever the environment holds, construction goes through, and every
\* setting is the parsed value when that is a number above zero, and otherwise
\* the documented default: base 1.0, disk and docker max(base, 5.0), idle
\* interval 30, idle timeout 5, process limit 10.  (SpecConfig; the interval
\* argument not given)
C15_EnvFallsBackToDefaults ==
    /\ cf.phase = "called" => ENABLED Construct
    /\ (cf.phase = "built" /\ ~cf.arg.given) =>
          LET e == cf.env
              base == Documented(e["interval"], FALSE, 10)
          IN /\ cf.conf.interval = base
             /\ cf.conf.disk_interval = Documented(e["disk_interval"], FALSE, Max(base, 50))
             /\ cf.conf.docker_interval = Documented(e["docker_interval"], FALSE, Max(base, 50))
             /\ cf.conf.idle_interval = Documented(e["idle_interval"], FALSE, 300)
             /\ cf.conf.idle_timeout = Documented(e["idle_timeout"], FALSE, 50)
             /\ cf.conf.process_limit = Documented(e["process_limit"], TRUE, 10)

\* Built in an environment with a non-numeric, a negative, a zero and a valid
\* value.
C15_Witness ==
    /\ cf.phase = "built" /\ ~cf.arg.given
    /\ cf.env["interval"] = "abc" /\ cf.env["disk_interval"] = "-2"
    /\ cf.env["idle_interval"] = "0" /\ cf.env["idle_timeout"] = "0.5"
    /\ cf.env["process_limit"] = "0.5"
    /\ cf.conf.idle_timeout = 5 /\ cf.conf.process_limit = 10

\* --------------------------------------------------------------------- C16
\* C16: after construction, whatever the interval argument and the environment,
\* all six settings are above zero.  (SpecConfig)
C16_SettingsPositive ==
    cf.phase = "built" =>
        /\ cf.conf.interval > 0
        /\ cf.conf.disk_interval > 0
        /\ cf.conf.docker_interval > 0
        /\ cf.conf.idle_interval > 0
        /\ cf.conf.idle_timeout > 0
        /\ cf.conf.process_limit > 0

\* ============================================ stored and returned objects
\* The dicts and lists behind the stored snapshot, the stored process list and
\* the values handed to callers, as cells of a heap: a cell has a content v and
\* refers to at most one nested cell (kid; 0: none).  A snapshot is a dict
\* holding a section dict holding a list (cpu: per-core values); a process list
\* holds an entry dict of scalars.

\* Cells that can be allocated.
MaxCells == 16
\* Passes of the loop in this view.
MaxHeapPasses == 2

Addr == 1..MaxCells
Callers == {"a", "b"}
\* The content a caller writes into a value it was handed.
Tainted == 0 - 1

mainVars == <<cfg, clock, sharedVars, loopVars, rd, markPc, markedSincePass, st>>

FreeCell == [v |-> 0, kid |-> 0]

RECURSIVE Chain(_, _)
\* The cells reachable from a, outermost first.
Chain(cells, a) == IF a = 0 THEN <<>> ELSE <<a>> \o Chain(cells, cells[a].kid)

\* The value of the object at a: the contents along its chain.
Vals(cells, a) == LET ch == Chain(cells, a) IN [i \in 1..Len(ch) |-> cells[ch[i]].v]

\* A copy that stops at the second level and shares what lies deeper.
DeepCopyTwoLevels(cells, used, root) ==
    LET ch == Chain(cells, root)
        n == IF Len(ch) > 2 THEN 2 ELSE Len(ch)
    IN [x \in Addr |->
          IF x \in (used + 1)..(used + n)
             THEN [v |-> cells[ch[x - used]].v,
                   kid |-> IF x - used < n THEN x + 1
                           ELSE IF Len(ch) > n THEN ch[n + 1] ELSE 0]
             ELSE cells[x]]

\* copy.deepcopy(self._metrics): every cell of the chain is copied into a new
\* cell; the copy starts at used + 1.
DeepCopyObjects(cells, used, root) ==
    LET ch == Chain(cells, root)
        n == Len(ch)
    IN [x \in Addr |->
          IF x \in (used + 1)..(used + n)
             THEN [v |-> cells[ch[x - used]].v,
                   kid |-> IF x - used < n THEN x + 1 ELSE 0]
             ELSE cells[x]]

\* [proc.copy() for proc in self._processes]: a new list of shallow copies of
\* the entries; an entry copy keeps whatever the entry refers to.
ProcessListCopy(cells, used, root) ==
    LET entry == cells[root].kid
    IN [x \in Addr |->
          IF x = used + 1
             THEN [v |-> cells[root].v, kid |-> IF entry = 0 THEN 0 ELSE used + 2]
          ELSE IF x = used + 2 /\ entry # 0
             THEN [v |-> cells[entry].v, kid |-> cells[entry].kid]
          ELSE cells[x]]

\* __init__, lines 55-56: cell 1 is the stored {}, cell 2 the stored [].
InitHeap ==
    /\ cfg = CHOOSE c \in Configs : TRUE
    /\ CollectorStart
    /\ cf = NoConstruction
    /\ dk = NoDocker
    /\ rq = NoRequest
    /\ pr = NoPriming
    /\ cw = NoCache
    /\ ak = NoKeys
    /\ hp = [phase |-> "run",
             cells |-> [x \in Addr |-> FreeCell],
             used |-> 2, m_root |-> 1, p_root |-> 2,
             passes |-> 0, idle |-> FALSE,
             pubM |-> <<0>>, pubP |-> <<0>>, pubsM |-> {}, pubsP |-> {},
             ret |-> [c \in Callers |-> [m |-> 0, p |-> 0]]]

\* An ACTIVE pass and its publish: new dicts and lists throughout.
HeapActivePass ==
    /\ hp.passes < MaxHeapPasses
    /\ hp.used + 5 <= MaxCells
    /\ LET u == hp.used
           k == hp.passes + 1
           cells == [x \in Addr |->
                       CASE x = u + 1 -> [v |-> k, kid |-> u + 2]
                         [] x = u + 2 -> [v |-> k, kid |-> u + 3]
                         [] x = u + 3 -> [v |-> k, kid |-> 0]
                         [] x = u + 4 -> [v |-> k, kid |-> u + 5]
                         [] x = u + 5 -> [v |-> k, kid |-> 0]
                         [] OTHER -> hp.cells[x]]
       IN hp' = [hp EXCEPT !.cells = cells, !.used = u + 5,
                           !.m_root = u + 1, !.p_root = u + 4,
                           !.passes = k, !.idle = FALSE,
                           !.pubM = <<k, k, k>>, !.pubP = <<k, k>>,
                           !.pubsM = @ \cup {<<k, k, k>>},
                           !.pubsP = @ \cup {<<k, k>>}]
    /\ UNCHANGED <<mainVars, cf, dk, rq, pr, cw, ak>>

\* An IDLE pass and its publish: a new dict whose cpu entry is the stored
\* dict's own section object (or a new {} when it has none), and the stored
\* list itself as the process list.
HeapIdlePass ==
    /\ hp.passes < MaxHeapPasses
    /\ hp.used + 2 <= MaxCells
    /\ LET u == hp.used
           k == hp.passes + 1
           section == hp.cells[hp.m_root].kid
           fresh == section = 0
           cells == [x \in Addr |->
                       IF x = u + 1
                          THEN [v |-> k, kid |-> IF fresh THEN u + 2 ELSE section]
                          ELSE hp.cells[x]]
           m == IF fresh THEN <<k, 0>> ELSE <<k>> \o Tail(hp.pubM)
       IN hp' = [hp EXCEPT !.cells = cells, !.used = IF fresh THEN u + 2 ELSE u + 1,
                           !.m_root = u + 1,
                           !.passes = k, !.idle = TRUE,
                           !.pubM = m,
                           !.pubsM = @ \cup {m},
                           !.pubsP = @ \cup {hp.pubP}]
    /\ UNCHANGED <<mainVars, cf, dk, rq, pr, cw, ak>>

\* metrics(), after the first publish
HeapMetrics(c) ==
    /\ hp.passes > 0
    /\ hp.ret[c].m = 0
    /\ hp.used + 3 <= MaxCells
    /\ hp' = [hp EXCEPT !.cells = DeepCopyObjects(hp.cells, hp.used, hp.m_root),
                        !.used = hp.used + Len(Chain(hp.cells, hp.m_root)),
                        !.ret[c].m = hp.used + 1]
    /\ UNCHANGED <<mainVars, cf, dk, rq, pr, cw, ak>>

\* processes(), after the first publish
HeapProcesses(c) ==
    /\ hp.passes > 0
    /\ hp.ret[c].p = 0
    /\ hp.used + 2 <= MaxCells
    /\ hp' = [hp EXCEPT !.cells = ProcessListCopy(hp.cells, hp.used, hp.p_root),
                        !.used = hp.used + Len(Chain(hp.cells, hp.p_root)),
                        !.ret[c].p = hp.used + 1]
    /\ UNCHANGED <<mainVars, cf, dk, rq, pr, cw, ak>>

\* The cells of the object at a.
ChainSet(cells, a) == LET ch == Chain(cells, a) IN {ch[i] : i \in 1..Len(ch)}

\* The objects caller c can reach through the values it was handed.
Reach(c) == ChainSet(hp.cells, hp.ret[c].m) \cup ChainSet(hp.cells, hp.ret[c].p)

\* Caller "a" writes into an object it can reach, or removes what it holds.
HeapMutate(x, cut) ==
    /\ x \in Reach("a")
    /\ hp.cells[x].v # Tainted
    /\ hp' = [hp EXCEPT !.cells[x] = [v |-> Tainted,
                                      kid |-> IF cut THEN 0 ELSE hp.cells[x].kid]]
    /\ UNCHANGED <<mainVars, cf, dk, rq, pr, cw, ak>>

NextHeap ==
    \/ HeapActivePass
    \/ HeapIdlePass
    \/ \E c \in Callers : HeapMetrics(c)
    \/ \E c \in Callers : HeapProcesses(c)
    \/ \E x \in Reach("a"), cut \in BOOLEAN : HeapMutate(x, cut)
SpecHeap == InitHeap /\ [][NextHeap]_vars

\* --------------------------------------------------------------------- C14
\* C14: whatever caller "a" does to the snapshot and the process list it was
\* handed, at any depth, the stored snapshot and process list keep the value
\* the loop published (also when an IDLE pass assembled it from the previous
\* stored one), and what caller "b" is handed, before or after, is a value the
\* loop published.  (SpecHeap)
C14_ReturnedCopiesIsolated ==
    /\ Vals(hp.cells, hp.m_root) = hp.pubM
    /\ Vals(hp.cells, hp.p_root) = hp.pubP
    /\ hp.ret["b"].m # 0 => Vals(hp.cells, hp.ret["b"].m) \in hp.pubsM
    /\ hp.ret["b"].p # 0 => Vals(hp.cells, hp.ret["b"].p) \in hp.pubsP

\* "a" has overwritten the innermost list of its snapshot and the entry of its
\* process list, an IDLE pass has published since, and "b" holds a snapshot of
\* that pass.
C14_Witness ==
    /\ hp.ret["a"].m # 0 /\ hp.ret["a"].p # 0
    /\ Vals(hp.cells, hp.ret["a"].m) = <<1, 1, Tainted>>
    /\ Vals(hp.cells, hp.ret["a"].p) = <<1, Tainted>>
    /\ hp.passes = 2 /\ hp.idle
    /\ hp.ret["b"].m # 0 /\ Vals(hp.cells, hp.ret["b"].m) = <<2, 1, 1>>

\* ========================================= get_docker_info: one container
\* Time is counted in seconds here, cpu_percent in hundredths of a percent.

Containers == {"c1"}
ContainerStates == {"running", "exited"}

\* How the stats call of a running container goes: a 200 response that parses;
\* another status; an exception in session.get; a KeyError while the cpu
\* counters are read (before docker_cache.set); a KeyError or ZeroDivisionError
\* in the memory, network or block-I/O part (after docker_cache.set).
StatsOutcomes == {"ok", "non200", "fetch_raises", "cpu_parse_raises", "rest_parse_raises"}

\* Cumulative counters a stats response can carry, and CPU counts.
CpuCounters == {1000, 1500}
SystemCounters == {10000, 10500, 10503}
CpuCounts == {0, 4}

\* docker_cache.set(..., timeout=600)
Ttl == 600
\* The clock is advanced at most this many times.
MaxAdvances == 2

NoEntry == [stored |-> FALSE, cpu_usage |-> 0, system_cpu |-> 0, at |-> 0]
NoReport == [cpu_percent |-> 0, stats |-> "none", error |-> FALSE]
NoObservation ==
    [c |-> "none", state |-> "none", outcome |-> "none",
     cpu |-> 0, system |-> 0, cpus |-> 0,
     found |-> FALSE, prev |-> NoEntry, age |-> 0, at |-> 0, report |-> NoReport,
     called |-> FALSE, looked |-> FALSE]

\* An entry that outlives its timeout by a second.
LivesOneSecondLonger(entry, now, keep) ==
    /\ entry.stored
    /\ \/ now - entry.at < Ttl + 1
       \/ now - entry.at = Ttl + 1 /\ keep

\* docker_cache.get(container_id) returns the entry: it was set, and less than
\* its timeout ago; at exactly the timeout the cache may or may not still
\* return it (keep).
Lives(entry, now, keep) ==
    /\ entry.stored
    /\ \/ now - entry.at < Ttl
       \/ now - entry.at = Ttl /\ keep

\* round(x, 2) of the quotient num / den (den > 0), in hundredths when num is:
\* the nearest integer, the even one of two equally near.
RoundDiv(num, den) ==
    LET q == num \div den
        r == num % den
    IN IF 2 * r < den THEN q
       ELSE IF 2 * r > den THEN q + 1
       ELSE IF q % 2 = 0 THEN q ELSE q + 1

\* The percentage without the clamp.
ScaledPercentUnclamped(cpu_delta, system_delta, cpus) ==
    RoundDiv(cpu_delta * cpus * 10000, system_delta)

\* lines 62-63 and 99: (cpu_delta / system_delta) * online_cpus * 100, clamped
\* to [0, 100 * online_cpus], rounded to two decimals.
ScaledPercent(cpu_delta, system_delta, cpus) ==
    LET num == cpu_delta * cpus * 10000
    IN IF num <= 0 THEN 0
       ELSE IF num >= 10000 * cpus * system_delta THEN 10000 * cpus
       ELSE RoundDiv(num, system_delta)

\* A computation that takes a missing entry for an entry of zeros.
CpuPercentFromZero(found, prev, cpu, system, cpus) ==
    LET cpu_delta == cpu - prev.cpu_usage
        system_delta == system - prev.system_cpu
    IN IF system_delta > 0 /\ cpus > 0
          THEN ScaledPercent(cpu_delta, system_delta, cpus)
          ELSE 0

\* lines 52-63: cpu_percent
CpuPercent(found, prev, cpu, system, cpus) ==
    IF ~found THEN 0
    ELSE LET cpu_delta == cpu - prev.cpu_usage
             system_delta == system - prev.system_cpu
         IN IF system_delta > 0 /\ cpus > 0
               THEN ScaledPercent(cpu_delta, system_delta, cpus)
               ELSE 0

\* The entry the report of one container is built from.
ContainerReport(state, outcome, percent) ==
    IF state = "running" /\ outcome = "ok"
       THEN [cpu_percent |-> percent, stats |-> "computed", error |-> FALSE]
       ELSE [cpu_percent |-> 0, stats |-> "zero", error |-> FALSE]

\* The listing succeeded; the containers are about to be gone through.
InitDocker ==
    /\ cfg = CHOOSE c \in Configs : TRUE
    /\ CollectorStart
    /\ cf = NoConstruction
    /\ hp = NoHeap
    /\ rq = NoRequest
    /\ pr = NoPriming
    /\ cw = NoCache
    /\ ak = NoKeys
    /\ dk = [phase |-> "run", clock |-> 0, advances |-> 0,
             cache |-> [c \in Containers |-> NoEntry],
             last |-> NoObservation]

\* Counters are read whatever the state of the container is.
ReadsCountersAnyState(state, outcome) == outcome \in {"ok", "rest_parse_raises"}

\* Lines 40-50: the counters of the stats response are read, for a running
\* container whose stats call returned 200 with the cpu part in place.
ReadsCounters(state, outcome) ==
    state = "running" /\ outcome \in {"ok", "rest_parse_raises"}

\* A store that leaves an entry that is already there in place.
KeptIfStored(entry, written) == IF entry.stored THEN entry ELSE written

\* docker_cache.set(container_id, {...}, timeout=600): the new entry takes the
\* place of the old one.
Superseded(entry, written) == written

\* Lines 30-149 for one container of the listing: the adapter state d after them.
\* called: the stats GET of line 42 was made; looked: docker_cache.get of line 53.
Observed(d, c, state, outcome, cpu, system, cpus, keep) ==
    LET entry == d.cache[c]
        reads == ReadsCounters(state, outcome)
        found == reads /\ Lives(entry, d.clock, keep)
        percent == CpuPercent(found, entry, cpu, system, cpus)
        written == [stored |-> TRUE, cpu_usage |-> cpu, system_cpu |-> system,
                    at |-> d.clock]
    IN [d EXCEPT
          !.cache[c] = IF reads THEN Superseded(entry, written) ELSE entry,
          !.last = [c |-> c, state |-> state, outcome |-> outcome,
                    cpu |-> cpu, system |-> system, cpus |-> cpus,
                    found |-> found,
                    prev |-> IF reads THEN entry ELSE NoEntry,
                    age |-> IF reads /\ entry.stored
                               THEN d.clock - entry.at ELSE 0,
                    at |-> d.clock,
                    report |-> ContainerReport(state, outcome, percent),
                    called |-> state = "running",
                    looked |-> reads]]

DockerObserve(c, state, outcome, cpu, system, cpus, keep) ==
    /\ dk.phase = "run"
    /\ dk' = Observed(dk, c, state, outcome, cpu, system, cpus, keep)
    /\ UNCHANGED <<mainVars, cf, hp, rq, pr, cw, ak>>

\* Time passes between two docker refreshes.
DockerAdvance(d) ==
    /\ dk.phase = "run"
    /\ dk.advances < MaxAdvances
    /\ dk' = [dk EXCEPT !.clock = @ + d, !.advances = @ + 1, !.last = NoObservation]
    /\ UNCHANGED <<mainVars, cf, hp, rq, pr, cw, ak>>

NextDocker ==
    \/ \E c \in Containers, state \in ContainerStates, outcome \in StatsOutcomes,
          cpu \in CpuCounters, system \in SystemCounters, cpus \in CpuCounts,
          keep \in BOOLEAN :
          DockerObserve(c, state, outcome, cpu, system, cpus, keep)
    \/ \E d \in {Ttl - 1, Ttl, Ttl + 1} : DockerAdvance(d)
SpecDocker == InitDocker /\ [][NextDocker]_vars

\* ------------------------------------------------------------ docker claims
Last == dk.last
\* The last observation read the counters of a running container.
ReadCounters ==
    /\ dk.phase = "run"
    /\ Last.state = "running"
    /\ Last.outcome \in {"ok", "rest_parse_raises"}
\* The last observation reported computed statistics.
ReportedComputed == ReadCounters /\ Last.outcome = "ok"
LastCpuDelta == Last.cpu - Last.prev.cpu_usage
LastSystemDelta == Last.system - Last.prev.system_cpu
\* clamp(cpu_delta * online_cpus * 100, 0, online_cpus * 100 * system_delta),
\* in hundredths of a percent times system_delta (system_delta > 0).
ClampedTimesSystemDelta ==
    LET num == LastCpuDelta * Last.cpus * 10000
        top == 10000 * Last.cpus * LastSystemDelta
    IN IF num <= 0 THEN 0 ELSE IF num >= top THEN top ELSE num
Abs(x) == IF x < 0 THEN 0 - x ELSE x
\* The entry docker_cache.set wrote in the last observation.
LastWritten ==
    [stored |-> TRUE, cpu_usage |-> Last.cpu, system_cpu |-> Last.system,
     at |-> Last.at]

\* C17 as stated: with a previous entry, the reported cpu_percent is exactly
\* clamp(cpu_delta / system_delta * online_cpus * 100, 0, online_cpus * 100)
\* when system_delta > 0 and online_cpus > 0, and 0.0 otherwise.
C17_CpuPercentIsClampedRatio ==
    ReportedComputed /\ Last.found =>
        IF LastSystemDelta > 0 /\ Last.cpus > 0
           THEN Last.report.cpu_percent * LastSystemDelta = ClampedTimesSystemDelta
           ELSE Last.report.cpu_percent = 0

\* C17 amended: with a previous entry, the reported cpu_percent is that clamped
\* value rounded to two decimals (at most half a hundredth away from it) when
\* system_delta > 0 and online_cpus > 0, and 0.0 otherwise; it always lies in
\* [0, 100 * online_cpus], also when a counter went backwards.
C17_CpuPercentIsRoundedClampedRatio ==
    ReportedComputed /\ Last.found =>
        /\ IF LastSystemDelta > 0 /\ Last.cpus > 0
              THEN 2 * Abs(Last.report.cpu_percent * LastSystemDelta
                           - ClampedTimesSystemDelta) <= LastSystemDelta
              ELSE Last.report.cpu_percent = 0
        /\ Last.report.cpu_percent >= 0
        /\ Last.report.cpu_percent <= 10000 * Last.cpus
\* prev 1000/10000, curr 1500/10500, 4 CPUs: 400.0 is reported.
C17_Witness ==
    /\ ReportedComputed /\ Last.found
    /\ Last.prev.cpu_usage = 1000 /\ Last.prev.system_cpu = 10000
    /\ Last.cpu = 1500 /\ Last.system = 10500 /\ Last.cpus = 4
    /\ Last.report.cpu_percent = 40000

\* C18: a running container with no previous delta-cache entry is reported
\* with cpu_percent 0.0 whatever its current counters are, and the observation
\* stores the current counters as the baseline of the next one.
C18_FirstObservationIsBaseline ==
    ReadCounters /\ ~Last.found =>
        /\ Last.report.cpu_percent = 0
        /\ dk.cache[Last.c] = LastWritten
C18_Witness ==
    /\ ReportedComputed /\ ~Last.found /\ ~Last.prev.stored
    /\ Last.cpu = 1500 /\ Last.system = 10500 /\ Last.cpus = 4
    /\ Last.report.cpu_percent = 0
    /\ dk.cache[Last.c] = LastWritten

\* C19: an entry last refreshed more than 600 s ago is absent at the next
\* lookup, so that observation reports cpu_percent 0.0 and stores a new
\* baseline; an entry refreshed less than 600 s ago is still present.
C19_EntryExpiresAfterTtl ==
    ReadCounters /\ Last.prev.stored =>
        /\ Last.age > Ttl =>
              /\ ~Last.found
              /\ Last.report.cpu_percent = 0
              /\ dk.cache[Last.c] = LastWritten
        /\ Last.age < Ttl => Last.found
C19_Witness ==
    /\ ReportedComputed /\ Last.prev.stored /\ Last.age = Ttl + 1
    /\ ~Last.found
    /\ Last.cpu > Last.prev.cpu_usage /\ Last.system > Last.prev.system_cpu
    /\ Last.cpus = 4
    /\ Last.report.cpu_percent = 0
    /\ dk.cache[Last.c].at = Last.at

\* C20: a running container whose stats call fails (a non-200 response, or an
\* exception while the stats are fetched or parsed) is reported with all
\* numeric fields zero and with an error marker field.
C20_FailedStatsReportedWithErrorMarker ==
    /\ dk.phase = "run"
    /\ Last.state = "running"
    /\ Last.outcome \in StatsOutcomes \ {"ok"}
    => /\ Last.report.stats = "zero"
       /\ Last.report.cpu_percent = 0
       /\ Last.report.error

\* C22: a container whose state is not 'running' is reported with all numeric
\* stats zero, without a stats call, and the observation neither reads nor
\* writes its delta-cache entry.
C22_NotRunningLeavesCacheAlone ==
    [][dk'.last.state = "exited" =>
          /\ dk'.last.report.stats = "zero"
          /\ dk'.last.report.cpu_percent = 0
          /\ ~dk'.last.called
          /\ ~dk'.last.looked
          /\ dk'.cache = dk.cache]_vars
C22_Witness ==
    /\ dk.phase = "run"
    /\ Last.state = "exited"
    /\ Last.report.stats = "zero"
    /\ dk.cache[Last.c].stored
    /\ dk.cache[Last.c].at < Last.at

\* ================================= get_docker_info: a whole call, call by call
\* The collector calls get_docker_info in __init__ (collector.py 59) and at every
\* due docker gate (129) and assigns what it returns to self._cached_docker.

\* At most this many calls are followed.
MaxDockerCalls == 3

ListedIds == {"c1", "c2"}
\* An element of the listing: "full" has Id, Names, State and Image;
\* "no_image" lacks the Image key.
Shapes == {"full", "no_image"}
Listed ==
    [id : ListedIds, state : ContainerStates, shape : {"full"}]
    \cup [id : ListedIds, state : {"running"}, shape : {"no_image"}]
\* The listings: up to two containers, each id once.
Listings ==
    {<<>>} \cup {<<a>> : a \in Listed}
           \cup {<<a, b>> : a \in {x \in Listed : x.id = "c1"},
                            b \in {x \in Listed : x.id = "c2"}}
           \cup {<<b, a>> : a \in {x \in Listed : x.id = "c1"},
                            b \in {x \in Listed : x.id = "c2"}}

\* Counters and outcomes followed call by call.
PassCounters == {[cpu |-> 1000, system |-> 10000], [cpu |-> 1500, system |-> 10500]}
PassCpus == 4
PassOutcomes == {"ok", "non200", "rest_parse_raises"}
\* Seconds between two calls.
PassGaps == {1, Ttl + 1}

\* return [{'error': f'Docker not available: {str(e)}'}]
ErrorResult == <<[id |-> "none", report |-> [cpu_percent |-> 0, stats |-> "none", error |-> TRUE]]>>
NoValue == <<>>
NoHistory == [read |-> FALSE, cpu |-> 0, system |-> 0, at |-> 0, call |-> 0]

\* __init__ is about to make the first call.
InitDockerPass ==
    /\ cfg = CHOOSE c \in Configs : TRUE
    /\ CollectorStart
    /\ cf = NoConstruction
    /\ hp = NoHeap
    /\ rq = NoRequest
    /\ pr = NoPriming
    /\ cw = NoCache
    /\ ak = NoKeys
    /\ dk = [phase |-> "idle", clock |-> 0, calls |-> 0,
             cache |-> [c \in ListedIds |-> NoEntry],
             last |-> NoObservation,
             listing |-> <<>>, idx |-> 0, out |-> <<>>,
             cached |-> NoValue, done |-> FALSE, failed |-> FALSE,
             hist |-> [c \in ListedIds |-> NoHistory]]

\* Lines 10-27 after d seconds: the listing call; it yields l, or it raises (no
\* socket, an HTTP error, bad JSON: ~ok) and line 170 returns the error list,
\* which the collector stores.
DockerList(d, ok, l) ==
    /\ dk.phase = "idle"
    /\ dk.calls < MaxDockerCalls
    /\ LET started == [dk EXCEPT !.clock = IF dk.calls = 0 THEN 0 ELSE @ + d,
                                 !.calls = @ + 1,
                                 !.last = NoObservation]
       IN dk' = IF ~ok
                   THEN [started EXCEPT !.cached = ErrorResult, !.done = TRUE,
                                        !.failed = TRUE]
                   ELSE [started EXCEPT !.phase = "loop", !.listing = l, !.idx = 1]
    /\ UNCHANGED <<mainVars, cf, hp, rq, pr, cw, ak>>

\* Lines 29-149 for the next container of the listing.
DockerContainer(outcome, ctr, keep) ==
    /\ dk.phase = "loop"
    /\ dk.idx <= Len(dk.listing)
    /\ dk.listing[dk.idx].shape = "full"
    /\ LET ct == dk.listing[dk.idx]
           after == Observed(dk, ct.id, ct.state, outcome, ctr.cpu, ctr.system,
                             PassCpus, keep)
       IN dk' = [after EXCEPT
                   !.idx = @ + 1,
                   !.out = Append(@, [id |-> ct.id, report |-> after.last.report]),
                   !.hist[ct.id] =
                       IF after.last.looked
                          THEN [read |-> TRUE, cpu |-> ctr.cpu, system |-> ctr.system,
                                at |-> dk.clock, call |-> dk.calls]
                          ELSE @]
    /\ UNCHANGED <<mainVars, cf, hp, rq, pr, cw, ak>>

\* Lines 30-37 raise KeyError for a container without Image; the handler of
\* lines 150-166 reads container['Image'] again (154), so it raises too, and
\* line 170 returns the error list in place of everything gathered so far.
DockerContainerMalformed ==
    /\ dk.phase = "loop"
    /\ dk.idx <= Len(dk.listing)
    /\ dk.listing[dk.idx].shape # "full"
    /\ dk' = [dk EXCEPT !.phase = "idle", !.cached = ErrorResult, !.done = TRUE,
                        !.failed = TRUE, !.listing = <<>>, !.out = <<>>, !.idx = 0,
                        !.last = NoObservation]
    /\ UNCHANGED <<mainVars, cf, hp, rq, pr, cw, ak>>

\* return docker_stats (168); the collector stores it.
DockerReturn ==
    /\ dk.phase = "loop"
    /\ dk.idx > Len(dk.listing)
    /\ dk' = [dk EXCEPT !.phase = "idle", !.cached = dk.out, !.done = TRUE,
                        !.failed = FALSE, !.listing = <<>>, !.out = <<>>, !.idx = 0,
                        !.last = NoObservation]
    /\ UNCHANGED <<mainVars, cf, hp, rq, pr, cw, ak>>

NextDockerPass ==
    \/ \E d \in PassGaps, ok \in BOOLEAN, l \in Listings : DockerList(d, ok, l)
    \/ \E outcome \in PassOutcomes, ctr \in PassCounters, keep \in BOOLEAN :
          DockerContainer(outcome, ctr, keep)
    \/ DockerContainerMalformed
    \/ DockerReturn
SpecDockerPass == InitDockerPass /\ [][NextDockerPass]_vars

\* ------------------------------------------------------ call-level claims
\* This step ends a call of get_docker_info whose listing had succeeded.
ListedCallEnds == dk.phase = "loop" /\ dk'.phase = "idle"
\* This step ends a call of get_docker_info with the error list.
CallFails == dk'.phase = "idle" /\ dk'.failed /\ (dk.phase = "loop" \/ dk'.calls # dk.calls)
\* This step goes through one container of the listing.
ContainerStep == dk.phase = "loop" /\ dk'.phase = "loop" /\ dk'.idx = dk.idx + 1

\* C21: whenever the listing call succeeds, the call returns exactly one entry
\* per listed container, in listing order, whichever stats calls or field
\* accesses fail for single containers.
C21_OneEntryPerListedContainer ==
    [][ListedCallEnds =>
          /\ Len(dk'.cached) = Len(dk.listing)
          /\ \A i \in 1..Len(dk.listing) : dk'.cached[i].id = dk.listing[i].id]_vars

\* C23: when a docker refresh fails, the docker value the collector holds
\* afterwards is the last good one it held before: a failed refresh never
\* replaces a good cached value.
C23_FailedRefreshKeepsLastGood ==
    [][CallFails /\ dk.done /\ ~dk.failed => dk'.cached = dk.cached]_vars

\* C26: every observation that reads the counters of a running container
\* stores them under the container id with a fresh timeout, in place of the old
\* entry; so the previous entry an observation finds is that of the latest
\* earlier call that read the container's counters, and when the call before
\* read them less than 600 s ago, cpu_percent is computed from this call's
\* counters and that call's, never from an older call's.
C26_PercentFromThisCallAndTheOneBefore ==
    [][ContainerStep =>
          LET o == dk'.last
              h == dk.hist[o.c]
          IN /\ o.looked =>
                   dk'.cache[o.c] = [stored |-> TRUE, cpu_usage |-> o.cpu,
                                     system_cpu |-> o.system, at |-> dk.clock]
             /\ o.found =>
                   /\ h.read
                   /\ o.prev.cpu_usage = h.cpu /\ o.prev.system_cpu = h.system
                   /\ o.prev.at = h.at
             /\ (/\ o.looked
                 /\ h.read /\ h.call = dk.calls - 1
                 /\ dk.clock - h.at < Ttl) =>
                   /\ o.found
                   /\ o.prev.cpu_usage = h.cpu /\ o.prev.system_cpu = h.system
                   /\ o.report.stats = "computed" =>
                         o.report.cpu_percent =
                            CpuPercent(TRUE, [cpu_usage |-> h.cpu, system_cpu |-> h.system],
                                       o.cpu, o.system, o.cpus)]_vars
\* The third call, one second after the second, which had replaced the entry
\* of the first: 400.0 from the second call's counters and the third's.
C26_Witness ==
    /\ dk.phase = "loop" /\ dk.calls = 3
    /\ Last.report.stats = "computed" /\ Last.found
    /\ Last.prev.at = dk.clock - 1 /\ Last.prev.at > 0
    /\ Last.prev.cpu_usage = 1000 /\ Last.cpu = 1500
    /\ Last.report.cpu_percent = 40000

\* ------------------------------------------------------------------- C24
\* The data-source calls of a pass are made in this step.
SamplingStep == loopPc = "sampling" /\ loopPc' # "sampling"
DiskPair == <<cached_disk, last_disk_at>>
DockerPair == <<cached_docker, last_docker_at>>

C25_WaitTimeout ==
    [][loopPc = "sleep" /\ loopPc' = "wait" =>
          LET elapsed == clock - loc.iteration_start
              target == IF clock - last_activity <= cfg.idle_timeout
                           THEN cfg.interval ELSE cfg.idle_interval
              d == IF target - elapsed >= Floor THEN target - elapsed ELSE Floor
          IN /\ loc'.sleep_duration = d
             /\ loc'.deadline = clock + d
             /\ loc'.sleep_duration >= Floor]_vars
\* The first iteration, started at 0, took 3 units, longer than the base
\* interval, and the collector is active: the timeout is the floor.
C25_Witness ==
    /\ loopPc = "wait" /\ pass = 1 /\ clock = 3 /\ sampledAt[1] = 3
    /\ loc.run_active
    /\ cfg.interval < 3
    /\ loc.sleep_duration = Floor
    /\ loc.deadline = clock + Floor

\* ------------------------------------------------------------------- C27
\* What only a data-source call of a pass writes.
SampledState ==
    <<pass, produced, sampledAt, cached_disk, cached_docker, last_disk_at,
      last_docker_at>>
\* A step of a reader or of the mark_activity() caller.
CallerStep == rd' # rd \/ markPc' # markPc
\* The loop thread holds the lock only between the two assignments of the
\* publish; a reader only while it copies.
LockHeldForPublishOrCopy ==
    /\ lockOwner = "loop" => loopPc = "publish2"
    /\ loopPc = "sampling" => lockOwner # "loop"
    /\ \A r \in Readers : lockOwner = r => rd[r].pc = "copy"

\* C27: no step of metrics(), processes() or mark_activity() makes a
\* data-source call, and the loop thread does not hold the lock while it makes
\* one: the lock is held only for the assignment of the new pair and for a
\* reader's copy.
C27_SamplingOutsideLockAndReaders ==
    /\ []LockHeldForPublishOrCopy
    /\ [][/\ CallerStep => UNCHANGED SampledState
          /\ SamplingStep => lockOwner # "loop" /\ lockOwner' = lockOwner /\ ~CallerStep
         ]_vars
\* A reader copies the first snapshot while the second pass is sampling.
C27_Witness ==
    /\ loopPc = "sampling" /\ pass = 2
    /\ rd["r1"].pc = "copy" /\ lockOwner = "r1"
    /\ metrics.timestamp = 1

\* ------------------------------------------------------------------- C28
\* C28: no reader can block the writer or be blocked by another reader: the
\* publish never has to wait for a reader that is copying, and a metrics() or
\* processes() call never has to wait for another reader's copy.
C28_ReadersBlockNobody ==
    /\ loopPc = "publish" => lockOwner \notin Readers
    /\ \A r \in Readers :
          rd[r].pc = "wait" /\ ready_ev => lockOwner \notin (Readers \ {r})

\* ======================================== app.py: the before_request hook
\* A path is the sequence of its separators and segments.
StaticPrefix == <<"/", "static", "/">>
Paths ==
    { <<"/", "static", "/", "app.js">>,
      <<"/", "static">>,
      <<"/">>,
      <<"/", "api", "/", "metrics">> }

\* A prefix test that looks at the first segment only.
StartsWithFirstSegment(path, prefix) ==
    Len(path) >= 2 /\ SubSeq(path, 1, 2) = SubSeq(prefix, 1, 2)

\* request.path.startswith('/static/')
StartsWith(path, prefix) ==
    Len(path) >= Len(prefix) /\ SubSeq(path, 1, Len(prefix)) = prefix

NoPath == <<>>
IdleRequest ==
    [phase |-> "idle", path |-> NoPath, auth |-> FALSE, arrived |-> 0,
     stamped |-> FALSE, woke |-> FALSE]

\* The collector runs and the application waits for a request.
InitRequest ==
    /\ cfg = CHOOSE c \in Configs : TRUE
    /\ CollectorStart
    /\ cf = NoConstruction
    /\ hp = NoHeap
    /\ dk = NoDocker
    /\ pr = NoPriming
    /\ cw = NoCache
    /\ ak = NoKeys
    /\ rq = IdleRequest

requestFrame ==
    <<cfg, cf, hp, dk, pr, cw, ak, clock, lockOwner, stop_ev, ready_ev, metrics, processes,
      cached_disk, cached_docker, last_disk_at, last_docker_at, loopVars, rd, markPc,
      markedSincePass, st>>

\* A request for path arrives, with or without a logged-in session.
RequestArrives(path, auth) ==
    /\ rq.phase = "idle"
    /\ rq' = [IdleRequest EXCEPT !.phase = "hook", !.path = path, !.auth = auth,
                                 !.arrived = clock]
    /\ UNCHANGED <<requestFrame, last_activity, wake_ev>>

\* _refresh_metrics_activity, lines 216-218, up to the first statement of
\* mark_activity(): self._last_activity = time.time()
RequestHook ==
    /\ rq.phase = "hook"
    /\ IF StartsWith(rq.path, StaticPrefix)
          THEN /\ rq' = [rq EXCEPT !.phase = "view"]
               /\ UNCHANGED last_activity
          ELSE /\ rq' = [rq EXCEPT !.phase = "marking", !.stamped = TRUE]
               /\ last_activity' = clock
    /\ UNCHANGED <<requestFrame, wake_ev>>

\* mark_activity(): self._wake.set(); the hook returns None
RequestHookWake ==
    /\ rq.phase = "marking"
    /\ wake_ev' = TRUE
    /\ rq' = [rq EXCEPT !.phase = "view", !.woke = TRUE]
    /\ UNCHANGED <<requestFrame, last_activity>>

\* The view function runs (behind login_required, which turns a request
\* without a session away) and the request ends.
RequestView ==
    /\ rq.phase = "view"
    /\ rq' = IdleRequest
    /\ UNCHANGED <<requestFrame, last_activity, wake_ev>>

Request ==
    \/ \E path \in Paths, auth \in BOOLEAN : RequestArrives(path, auth)
    \/ RequestHook
    \/ RequestHookWake
    \/ RequestView

NextRequest == Tick \/ Loop \/ Request
SpecRequest == InitRequest /\ [][NextRequest]_vars

\* ------------------------------------------------------------------- C29
\* The paths that start with '/static/'.
StaticPaths == {p \in Paths : Len(p) >= 3 /\ p[1] = "/" /\ p[2] = "static" /\ p[3] = "/"}
\* A step of the request.
RequestStep == rq' # rq
\* The request whose step this is.
Served == IF rq.phase = "idle" THEN rq' ELSE rq

Constructors == {"k1", "k2", "k3"}
MaxConstructions == 2

\* _cpu_prime_lock = threading.Lock(); _cpu_prime_done = False; no collector yet.
InitPriming ==
    /\ cfg = CHOOSE c \in Configs : TRUE
    /\ CollectorStart
    /\ cf = NoConstruction
    /\ hp = NoHeap
    /\ dk = NoDocker
    /\ rq = NoRequest
    /\ cw = NoCache
    /\ ak = NoKeys
    /\ pr = [phase |-> "run", done |-> FALSE, lock |-> "none", invoked |-> 0,
             threads |-> 0,
             pc |-> [k \in Constructors |-> "new"],
             built |-> [k \in Constructors |-> 0]]

\* A second check that never sees the flag.
DoneUnderLockIgnored == FALSE

\* `if _cpu_prime_done:` inside `with _cpu_prime_lock:`
DoneUnderLock == pr.done

\* __init__, lines 43-62, then the call of prime_cpu_percent() (64).
CtorBegin(k) ==
    /\ pr.pc[k] = "new"
    /\ pr.built[k] < MaxConstructions
    /\ pr' = [pr EXCEPT !.pc[k] = "check", !.built[k] = @ + 1]
    /\ UNCHANGED <<mainVars, cf, hp, dk, rq, cw, ak>>

\* if _cpu_prime_done: return
PrimeFirstCheck(k) ==
    /\ pr.pc[k] = "check"
    /\ pr' = [pr EXCEPT !.pc[k] = IF pr.done THEN "start" ELSE "acquire"]
    /\ UNCHANGED <<mainVars, cf, hp, dk, rq, cw, ak>>

\* with _cpu_prime_lock:
PrimeAcquire(k) ==
    /\ pr.pc[k] = "acquire"
    /\ pr.lock = "none"
    /\ pr' = [pr EXCEPT !.pc[k] = "locked", !.lock = k]
    /\ UNCHANGED <<mainVars, cf, hp, dk, rq, cw, ak>>

\* if _cpu_prime_done: return (the lock is released)
PrimeSecondCheck(k) ==
    /\ pr.pc[k] = "locked"
    /\ pr' = IF DoneUnderLock
                THEN [pr EXCEPT !.pc[k] = "start", !.lock = "none"]
                ELSE [pr EXCEPT !.pc[k] = "invoke"]
    /\ UNCHANGED <<mainVars, cf, hp, dk, rq, cw, ak>>

\* psutil.cpu_percent(interval=None, percpu=True)
PrimeInvoke(k) ==
    /\ pr.pc[k] = "invoke"
    /\ pr' = [pr EXCEPT !.pc[k] = "flag", !.invoked = @ + 1]
    /\ UNCHANGED <<mainVars, cf, hp, dk, rq, cw, ak>>

\* _cpu_prime_done = True
PrimeSetDone(k) ==
    /\ pr.pc[k] = "flag"
    /\ pr' = [pr EXCEPT !.pc[k] = "release", !.done = TRUE]
    /\ UNCHANGED <<mainVars, cf, hp, dk, rq, cw, ak>>

\* the with block is left
PrimeRelease(k) ==
    /\ pr.pc[k] = "release"
    /\ pr' = [pr EXCEPT !.pc[k] = "start", !.lock = "none"]
    /\ UNCHANGED <<mainVars, cf, hp, dk, rq, cw, ak>>

\* __init__, lines 66-71: self._thread.start()
CtorStartThread(k) ==
    /\ pr.pc[k] = "start"
    /\ pr' = [pr EXCEPT !.pc[k] = "new", !.threads = @ + 1]
    /\ UNCHANGED <<mainVars, cf, hp, dk, rq, cw, ak>>

NextPriming ==
    \E k \in Constructors :
        \/ CtorBegin(k)
        \/ PrimeFirstCheck(k)
        \/ PrimeAcquire(k)
        \/ PrimeSecondCheck(k)
        \/ PrimeInvoke(k)
        \/ PrimeSetDone(k)
        \/ PrimeRelease(k)
        \/ CtorStartThread(k)
SpecPriming == InitPriming /\ [][NextPriming]_vars

\* ------------------------------------------------------------------- C30
\* C30: the priming call is made exactly once and is complete before a
\* collector thread is started (so before any publish); however many
\* prime_cpu_percent() calls run, one after another or at the same time, the
\* priming primitive is invoked at most once.
C30_PrimedOnceBeforeThreadStart ==
    /\ pr.invoked <= 1
    /\ \A k \in Constructors : pr.pc[k] = "start" => pr.done /\ pr.invoked = 1
    /\ pr.threads > 0 => pr.done /\ pr.invoked = 1
    /\ pr.done => pr.invoked = 1
\* k1 passed the first check before anybody had primed and holds the lock now,
\* after k2 has primed and started its thread: the primitive was invoked once.
C30_Witness ==
    /\ pr.phase = "run"
    /\ pr.pc["k1"] = "locked" /\ pr.lock = "k1" /\ pr.built["k1"] = 1
    /\ pr.done /\ pr.invoked = 1
    /\ pr.built["k2"] = 1 /\ pr.pc["k2"] = "new" /\ pr.threads = 1

\* ================================ Claims about the order of store and report

\* An observation of a running container reported the all-zero fallback.
ZeroFallback(d) == d.last.state = "running" /\ d.last.report.stats = "zero"

\* C35: in a docker pass, a running container's delta-cache entry is
\* overwritten exactly when the container is reported with computed stats;
\* whenever it is reported with the all-zero fallback (the stats fetch or the
\* parsing failed at any step), its previous delta-cache entry is left unchanged.
C35_CacheWrittenOnlyWithComputedStats ==
    [][/\ ZeroFallback(dk') => dk'.cache = dk.cache
       /\ dk'.last.state = "running" /\ dk'.last.report.stats = "computed"
             => dk'.cache[dk'.last.c] =
                   [stored |-> TRUE, cpu_usage |-> dk'.last.cpu,
                    system_cpu |-> dk'.last.system, at |-> dk'.last.at]]_vars

\* C35 without the failures after the store: a running container whose stats
\* call fails before the counters are read (a non-200 response, an exception in
\* the fetch, a response without the cpu counters) keeps its previous entry, and
\* one reported with computed stats has its entry overwritten with the counters
\* of this call.
C35_CacheKeptWhenCountersNotRead ==
    [][/\ ZeroFallback(dk') /\ dk'.last.outcome # "rest_parse_raises"
             => dk'.cache = dk.cache
       /\ dk'.last.state = "running" /\ dk'.last.report.stats = "computed"
             => dk'.cache[dk'.last.c] =
                   [stored |-> TRUE, cpu_usage |-> dk'.last.cpu,
                    system_cpu |-> dk'.last.system, at |-> dk'.last.at]]_vars

\* ============================================ Claims about one cycle of _run

\* The pass whose snapshot is stored was made in ACTIVE regime.
PublishedPassActive == metrics.timestamp = pass /\ FreshlySampled(metrics)

\* C32: within one cycle the regime is decided once: the regime _collect_once
\* used to choose what is sampled is the regime _run uses afterwards to choose
\* the wait's target interval, so an ACTIVE pass is followed by a base-interval
\* wait and an IDLE pass by an idle-interval wait. (SpecActivity)
C32_RegimeDecidedOncePerCycle ==
    loopPc = "wait" => (loc.run_active <=> PublishedPassActive)

\* The wait of line 113 returns.
WaitReturns == loopPc = "wait" /\ loopPc' = "stopcheck"
\* The time spent in the wait that is returning.
Waited == clock - (loc.deadline - loc.sleep_duration)

\* C34: between the publish that ends one collection pass and the start of the
\* next pass the loop waits at least the 0.05 s floor, for every pattern of
\* mark_activity() calls, including a call arriving during every pass.
\* (SpecActivity)
C34_FloorBetweenPasses ==
    [][WaitReturns => Waited >= Floor]_vars

\* C34 for the waits no wake signal ends: a wait that returns with the wake
\* event unset has lasted its whole timeout, which is at least the floor.
C34_FloorWhenNotWoken ==
    [][WaitReturns /\ ~wake_ev =>
          Waited >= loc.sleep_duration /\ loc.sleep_duration >= Floor]_vars

\* A mark_activity() call has returned and no pass has begun since it stamped.
MarkedAndReturned == markedSincePass /\ markPc = "idle"
\* The wake signal is pending, so that the wait of line 113 returns at once, or
\* the loop has consumed it and is at the top of the loop, about to begin a pass.
WakePendingOrPassNext == wake_ev \/ loopPc \in {"top", "collect"}

\* C33: a wake signal is never lost: wherever mark_activity() interleaves
\* (during a pass, during the wait, between the wait's return and the clearing
\* of the event), and with stop() not called, a collection pass starts after
\* the call without the loop first waiting out a base or idle interval: the
\* loop thread is alive, and the signal is pending or the pass is next.
\* (SpecActivity)
C33_WakeNeverLost ==
    MarkedAndReturned => loopPc # "crashed" /\ WakePendingOrPassNext

\* C33 for a loop thread that is alive: after a mark_activity() call the signal
\* is pending or the next pass is about to begin.
C33_WakeNeverLostWhileAlive ==
    MarkedAndReturned => WakePendingOrPassNext

\* ====================================== Claims about who writes the collector

\* What the loop publishes and caches: _metrics, _processes, _cached_disk,
\* _cached_docker, _last_disk_at, _last_docker_at.
StoredState == <<metrics, processes, cached_disk, cached_docker, last_disk_at,
                 last_docker_at>>
\* A step of the loop thread, of mark_activity(), of metrics()/processes().
LoopStep == loopPc' # loopPc
MarkStep == markPc' # markPc
ReadStep == rd' # rd

\* C36: after construction only the collector loop thread assigns the stored
\* snapshot, the stored process list, the cached disk/docker values and their
\* last-sample times; mark_activity() changes only last_activity and the wake
\* signal; metrics() and processes() change nothing of the collector's data.
\* (SpecReaders)
C36_OnlyLoopWritesStoredState ==
    [][/\ StoredState' # StoredState => LoopStep /\ ~MarkStep /\ ~ReadStep
       /\ MarkStep => UNCHANGED <<StoredState, lockOwner, stop_ev, ready_ev,
                                  loopVars, rd>>
       /\ ReadStep => UNCHANGED <<StoredState, stop_ev, ready_ev, wake_ev,
                                  last_activity, loopVars, markPc>>]_vars
\* Two passes have been published, a mark_activity() call has returned since
\* the second began, and a reader holds a copy of the first pass's snapshot.
C36_Witness ==
    /\ metrics.timestamp = 2 /\ last_disk_at > 0
    /\ markedSincePass /\ markPc = "idle" /\ wake_ev /\ last_activity > 0
    /\ rd["r1"].gotM /\ rd["r1"].m.timestamp = 1

\* ===================================================== cache.py: cached(duration)
\* One function wrapped with @cached(2), called from one thread at a time with
\* one of two argument values. The cache is taken by its contract: get returns
\* the value set under the key less than timeout seconds ago, None otherwise.
\* A body that returns a value returns a new one at each invocation (the number
\* of the invocation); None is 0.

\* @cached(2) on get_disk_info; CACHE_DURATION
CacheDuration == 2
\* The wrapped function is called at most this many times.
MaxCachedCalls == 3
\* The clock is advanced at most this many times.
MaxCacheAdvances == 3

CallArgs == {"a", "b"}
BodyKinds == {"value", "none"}
None == 0
\* cache_key = f"{func.__name__}_{str(args)}_{str(kwargs)}"
CacheKey(name, args) == <<name, args>>
CacheKeys == {CacheKey("f", a) : a \in CallArgs}

NoCacheEntry == [stored |-> FALSE, value |-> None, at |-> 0]
NoBody == [invoked |-> FALSE, result |-> None, at |-> 0]
NoCall ==
    [called |-> FALSE, key |-> CacheKey("f", "a"), hit |-> FALSE, invoked |-> FALSE,
     returned |-> None, result |-> None, prev |-> NoCacheEntry, before |-> NoBody,
     age |-> 0, at |-> 0]

InitCached ==
    /\ cfg = CHOOSE c \in Configs : TRUE
    /\ CollectorStart
    /\ cf = NoConstruction
    /\ hp = NoHeap
    /\ dk = NoDocker
    /\ rq = NoRequest
    /\ pr = NoPriming
    /\ ak = NoKeys
    /\ cw = [phase |-> "run", clock |-> 0, calls |-> 0, advances |-> 0, invoked |-> 0,
             cache |-> [k \in CacheKeys |-> NoCacheEntry],
             body |-> [k \in CacheKeys |-> NoBody],
             last |-> NoCall]

\* An entry that never expires.
UnexpiredForever(entry, now, duration, keep) == entry.stored

\* The entry was set, and less than its timeout ago; at exactly the timeout the
\* cache may or may not still return it (keep).
Unexpired(entry, now, duration, keep) ==
    /\ entry.stored
    /\ \/ now - entry.at < duration
       \/ now - entry.at = duration /\ keep

\* cache.get(cache_key)
CacheGet(entry, now, duration, keep) ==
    IF Unexpired(entry, now, duration, keep) THEN entry.value ELSE None

\* wrapper(*args, **kwargs), lines 13-22: the state c after a call with args
\* whose body, if it is invoked, returns a value of the given kind.
Wrapped(c, args, kind, keep) ==
    LET cache_key == CacheKey("f", args)
        entry == c.cache[cache_key]
        cached_result == CacheGet(entry, c.clock, CacheDuration, keep)
        hit == cached_result # None
        result == IF kind = "value" THEN c.invoked + 1 ELSE None
    IN [c EXCEPT
          !.calls = @ + 1,
          !.invoked = IF hit THEN @ ELSE @ + 1,
          !.cache[cache_key] =
              IF hit THEN @ ELSE [stored |-> TRUE, value |-> result, at |-> c.clock],
          !.body[cache_key] =
              IF hit THEN @ ELSE [invoked |-> TRUE, result |-> result, at |-> c.clock],
          !.last = [called |-> TRUE, key |-> cache_key, hit |-> hit,
                    invoked |-> ~hit,
                    returned |-> IF hit THEN cached_result ELSE result,
                    result |-> IF hit THEN None ELSE result,
                    prev |-> entry, before |-> c.body[cache_key],
                    age |-> IF entry.stored THEN c.clock - entry.at ELSE 0,
                    at |-> c.clock]]

CachedCall(args, kind, keep) ==
    /\ cw.phase = "run"
    /\ cw.calls < MaxCachedCalls
    /\ cw' = Wrapped(cw, args, kind, keep)
    /\ UNCHANGED <<mainVars, cf, hp, dk, rq, pr, ak>>

\* Time passes between two calls.
CacheAdvance(d) ==
    /\ cw.phase = "run"
    /\ cw.advances < MaxCacheAdvances
    /\ cw' = [cw EXCEPT !.clock = @ + d, !.advances = @ + 1, !.last = NoCall]
    /\ UNCHANGED <<mainVars, cf, hp, dk, rq, pr, ak>>

NextCached ==
    \/ \E args \in CallArgs, kind \in BodyKinds, keep \in BOOLEAN :
          CachedCall(args, kind, keep)
    \/ \E d \in {1, CacheDuration} : CacheAdvance(d)
SpecCached == InitCached /\ [][NextCached]_vars

LastCall == cw.last
\* The entry a miss writes: the body's result, stamped with the time of the call.
StoredByLastCall == [stored |-> TRUE, value |-> LastCall.result, at |-> LastCall.at]

\* C31: for a function wrapped with cached(duration), a call made within
\* duration seconds after a call with the same arguments stored a non-None
\* result returns that stored result without invoking the function; a call
\* made after the entry expired invokes the function again and stores the new
\* result; so a body that never returns None (get_disk_info, duration 2) is
\* invoked at most once per duration window.
C31_CachedWithinDuration ==
    cw.phase = "run" /\ LastCall.called =>
        /\ LastCall.prev.stored /\ LastCall.prev.value # None
              /\ LastCall.age < CacheDuration
              => /\ LastCall.hit /\ ~LastCall.invoked
                 /\ LastCall.returned = LastCall.prev.value
                 /\ cw.cache[LastCall.key] = LastCall.prev
        /\ LastCall.prev.stored /\ LastCall.age > CacheDuration
              => /\ LastCall.invoked
                 /\ LastCall.returned = LastCall.result
                 /\ cw.cache[LastCall.key] = StoredByLastCall
        /\ LastCall.invoked /\ LastCall.before.invoked
              /\ LastCall.before.result # None
              => LastCall.at - LastCall.before.at >= CacheDuration
\* A value stored at 0 is returned at 1 without a call of the body; at 4 the
\* body is called again and its value stored.
C31_Witness ==
    /\ cw.phase = "run" /\ LastCall.called /\ LastCall.invoked
    /\ LastCall.prev.stored /\ LastCall.prev.value = 1 /\ LastCall.age = 4
    /\ cw.calls = 3 /\ cw.invoked = 2 /\ LastCall.returned = 2
    /\ cw.cache[LastCall.key] = StoredByLastCall

\* ================================================== app.py: create_api_key
\* POST /api/settings/apikeys by one logged-in user, served by request threads
\* that share the database. A stored key is named by the number of the request
\* that stored it.

\* `>= 5` of the limit check
KeyLimit == 5
\* At most this many create requests are made.
MaxKeyRequests == 7
\* The threads serving the user's requests.
KeyThreads == {"q1", "q2"}

IdleKeyRequest == [pc |-> "idle", id |-> 0, count |-> 0]

InitKeys ==
    /\ cfg = CHOOSE c \in Configs : TRUE
    /\ CollectorStart
    /\ cf = NoConstruction
    /\ hp = NoHeap
    /\ dk = NoDocker
    /\ rq = NoRequest
    /\ pr = NoPriming
    /\ cw = NoCache
    /\ ak = [phase |-> "run", keys |-> {}, started |-> 0, rejected |-> {},
             created |-> {},
             req |-> [t \in KeyThreads |-> IdleKeyRequest]]

\* The request reaches the view function: request.get_json(), data.get('name').
KeyRequestArrives(t) ==
    /\ ak.phase = "run"
    /\ ak.req[t].pc = "idle"
    /\ ak.started < MaxKeyRequests
    /\ ak' = [ak EXCEPT !.started = @ + 1,
                        !.req[t] = [pc |-> "count", id |-> ak.started + 1, count |-> 0]]
    /\ UNCHANGED <<mainVars, cf, hp, dk, rq, pr, cw>>

\* APIKey.query.filter_by(user_id=current_user.id).count() >= 5
KeyCount(t) ==
    /\ ak.phase = "run"
    /\ ak.req[t].pc = "count"
    /\ LET n == Cardinality(ak.keys)
       IN ak' = [ak EXCEPT !.req[t].count = n,
                           !.req[t].pc = IF n >= KeyLimit THEN "reject" ELSE "insert"]
    /\ UNCHANGED <<mainVars, cf, hp, dk, rq, pr, cw>>

\* return jsonify({'error': 'Maximum 5 API keys allowed'}), 400
KeyReject(t) ==
    /\ ak.phase = "run"
    /\ ak.req[t].pc = "reject"
    /\ ak' = [ak EXCEPT !.rejected = @ \cup {ak.req[t].id},
                        !.req[t] = IdleKeyRequest]
    /\ UNCHANGED <<mainVars, cf, hp, dk, rq, pr, cw>>

\* db.session.add(api_key); db.session.commit(); the key is returned
KeyInsert(t) ==
    /\ ak.phase = "run"
    /\ ak.req[t].pc = "insert"
    /\ ak' = [ak EXCEPT !.keys = @ \cup {ak.req[t].id},
                        !.created = @ \cup {ak.req[t].id},
                        !.req[t] = IdleKeyRequest]
    /\ UNCHANGED <<mainVars, cf, hp, dk, rq, pr, cw>>

KeyRequest(t) ==
    \/ KeyRequestArrives(t)
    \/ KeyCount(t)
    \/ KeyReject(t)
    \/ KeyInsert(t)

NextKeys == \E t \in KeyThreads : KeyRequest(t)
SpecKeys == InitKeys /\ [][NextKeys]_vars

\* C37: a user never has more than 5 API keys: after any sequence and any
\* interleaving of concurrent create_api_key requests by the same user the
\* number of stored keys is at most 5, and a request made when the user
\* already has 5 keys is rejected with the 'Maximum 5 API keys allowed' error
\* and stores nothing.
C37_AtMostFiveKeys ==
    [](ak.phase = "run" => Cardinality(ak.keys) <= KeyLimit)
    /\ [][\A t \in KeyThreads :
             ak.req[t].pc = "count" /\ Cardinality(ak.keys) >= KeyLimit
                 /\ ak'.req[t] # ak.req[t]
                 => ak'.req[t].pc = "reject" /\ ak'.keys = ak.keys]_vars

\* C37 for the requests that find the limit reached: a request whose count
\* query sees 5 or more keys is rejected and stores nothing, and a key is
\* stored only by a request whose count query saw fewer than 5.
C37_RejectedWhenCountAtLimit ==
    [][\A t \in KeyThreads :
          /\ ak.req[t].pc = "count" /\ Cardinality(ak.keys) >= KeyLimit
                /\ ak'.req[t] # ak.req[t]
                => ak'.req[t].pc = "reject" /\ ak'.keys = ak.keys
          /\ ak.req[t].pc = "reject" /\ ak'.req[t] # ak.req[t]
                => ak'.keys = ak.keys /\ ak.req[t].id \in ak'.rejected
          /\ ak.req[t].id \in ak'.keys \ ak.keys => ak.req[t].count < KeyLimit]_vars
====
